---- MODULE Spec2Model ----
(***************************************************************************)
(* Model of the Excel-to-LLM conversion core: src/src/utils.py (chunk_df,  *)
(* format_prompt, detect_sheets, get_data_summary, format_summary) and     *)
(* src/src/converter.py (excel_to_formatted_text, excel_to_chunked_text,   *)
(* validate_excel_file).                                                   *)
(* Texts are TLA+ strings built by concatenation, exceptions are records   *)
(* carrying the Python exception type and message.                         *)
(***************************************************************************)
EXTENDS Integers, Sequences, FiniteSets, TLC

VARIABLES workbook, pc, op, args, result, all_sheets, warnings, handles, calls

vars == <<workbook, pc, op, args, result, all_sheets, warnings, handles, calls>>

(* ------------------------------ bounds --------------------------------- *)

MaxSheets == 3

MaxSheetRows == 2

MaxSel == 2

MaxLen == 4

MaxChunkSize == 3

MaxSummaryRows == 2

(* ------------------------------ helpers -------------------------------- *)

RECURSIVE Join(_, _)
\* Python str.join: sep.join(strs)
Join(sep, strs) ==
    IF Len(strs) = 0 THEN ""
    ELSE IF Len(strs) = 1 THEN strs[1]
    ELSE strs[1] \o sep \o Join(sep, Tail(strs))

RECURSIVE Repeat(_, _)
Repeat(s, n) == IF n <= 0 THEN "" ELSE s \o Repeat(s, n - 1)

RECURSIVE Flatten(_)
\* concatenation of a sequence of sequences
Flatten(ss) == IF Len(ss) = 0 THEN <<>> ELSE Head(ss) \o Flatten(Tail(ss))

Max(a, b) == IF a >= b THEN a ELSE b

Min(a, b) == IF a <= b THEN a ELSE b

CeilDiv(n, c) == (n + c - 1) \div c

(* ------------------------------ tables --------------------------------- *)

\* A cell: text, integer, whole-valued float, or NaN (a missing value).
Str(s) == [t |-> "str", s |-> s, n |-> 0]

Int64(n) == [t |-> "int", s |-> "", n |-> n]

Float64(n) == [t |-> "float", s |-> "", n |-> n]

NaN == [t |-> "nan", s |-> "", n |-> 0]

\* A cell of a source sheet that holds nothing.
Blank == [t |-> "blank", s |-> "", n |-> 0]

\* A DataFrame: ordered column names, their dtypes, and the rows in order;
\* obj tells the object apart from the objects pandas derives from it.
Columns == <<"Name", "Age">>

Dtypes == <<"object", "int64">>

DataFrame(rows) ==
    [columns |-> Columns, dtypes |-> Dtypes, rows |-> rows, obj |-> "original"]

\* str(cell) as the pandas writers print it
CellText(c) == IF c.t = "int" THEN ToString(c.n)
               ELSE IF c.t = "float" THEN ToString(c.n) \o ".0"
               ELSE c.s

\* df.fillna(""): a new frame in which every NaN cell is the empty text
fillna(df) ==
    [df EXCEPT !.rows = [r \in 1..Len(df.rows) |->
                [c \in 1..Len(df.rows[r]) |->
                    IF df.rows[r][c].t = "nan" THEN Str("") ELSE df.rows[r][c]]],
               !.obj = "fillna"]

\* len(df)
DfLen(df) == Len(df.rows)

\* an emptiness test that lets zero-row frames through
DfEmpty_never(df) == FALSE

\* df.empty: an axis of length 0
DfEmpty(df) == Len(df.rows) = 0 \/ Len(df.columns) = 0

\* df.iloc[i:j] with 0-based i, exclusive j, clipped to the table like a
\* Python slice; columns are kept.
Iloc(df, i, j) ==
    [df EXCEPT !.rows = SubSeq(df.rows, i + 1, Min(j, Len(df.rows))),
               !.obj = "iloc"]

(* ------------------------------ chunk_df ------------------------------- *)

\* range(0, n, step) as a sequence of start offsets; step = 0 is a
\* ValueError and is handled by the caller of this operator.
RangeStarts(n, step) ==
    IF step > 0 THEN [k \in 1..CeilDiv(n, step) |-> (k - 1) * step]
    ELSE <<>>

Ok(v) == [status |-> "ok", value |-> v]

Raised(t, m) == [status |-> "raised", type |-> t, msg |-> m]

\* chunk_df whose slices run one row too far, so neighbours overlap
chunk_df_overlap(df, chunk_size) ==
    IF DfLen(df) <= chunk_size THEN Ok(<<df>>)
    ELSE IF chunk_size = 0
         THEN Raised("ValueError", "range() arg 3 must not be zero")
    ELSE LET starts == RangeStarts(DfLen(df), chunk_size)
         IN Ok([k \in 1..Len(starts) |->
                    Iloc(df, starts[k], starts[k] + chunk_size + 1)])

\* chunk_df without its early return for tables that fit in one chunk
chunk_df_noearly(df, chunk_size) ==
    IF chunk_size = 0
    THEN Raised("ValueError", "range() arg 3 must not be zero")
    ELSE LET starts == RangeStarts(DfLen(df), chunk_size)
         IN Ok([k \in 1..Len(starts) |->
                    Iloc(df, starts[k], starts[k] + chunk_size)])

\* utils.chunk_df
chunk_df(df, chunk_size) ==
    IF DfLen(df) <= chunk_size THEN Ok(<<df>>)
    ELSE IF chunk_size = 0
         THEN Raised("ValueError", "range() arg 3 must not be zero")
    ELSE LET starts == RangeStarts(DfLen(df), chunk_size)
         IN Ok([k \in 1..Len(starts) |->
                    Iloc(df, starts[k], starts[k] + chunk_size)])

(* ------------------------------ Formatter ------------------------------ *)

\* df.to_csv(index=False, sep=','): header line, then one line per row
to_csv(df) ==
    Join(",", df.columns) \o "\n" \o
    Join("", [r \in 1..Len(df.rows) |->
        Join(",", [c \in 1..Len(df.columns) |-> CellText(df.rows[r][c])])
        \o "\n"])

JsonValue(c) == IF c.t = "int" THEN ToString(c.n)
                ELSE IF c.t = "float" THEN ToString(c.n) \o ".0"
                ELSE IF c.t = "nan" THEN "null"
                ELSE "\"" \o c.s \o "\""

\* df.to_json(orient='records', indent=2, force_ascii=False)
to_json(df) ==
    IF Len(df.rows) = 0 THEN "[\n\n]"
    ELSE "[\n" \o
         Join(",\n", [r \in 1..Len(df.rows) |->
            "  {\n" \o
            Join(",\n", [c \in 1..Len(df.columns) |->
                "    \"" \o df.columns[c] \o "\":" \o JsonValue(df.rows[r][c])])
            \o "\n  }"])
         \o "\n]"

RECURSIVE MaxOver(_)
MaxOver(ns) == IF Len(ns) = 0 THEN 0 ELSE Max(Head(ns), MaxOver(Tail(ns)))

\* width of column c in the markdown table: header plus the minimum
\* padding of two, or the widest cell
ColWidth(df, c) ==
    Max(Len(df.columns[c]) + 2,
        MaxOver([r \in 1..Len(df.rows) |-> Len(CellText(df.rows[r][c]))]))

\* numbers are right-aligned, everything else left-aligned
PadCell(df, c, text) ==
    IF df.dtypes[c] = "int64"
    THEN Repeat(" ", ColWidth(df, c) - Len(text)) \o text
    ELSE text \o Repeat(" ", ColWidth(df, c) - Len(text))

MdLine(df, texts) ==
    "|" \o Join("|", [c \in 1..Len(df.columns) |->
                        " " \o PadCell(df, c, texts[c]) \o " "]) \o "|"

MdRule(df) ==
    "|" \o Join("|", [c \in 1..Len(df.columns) |->
            IF df.dtypes[c] = "int64"
            THEN Repeat("-", ColWidth(df, c) + 1) \o ":"
            ELSE ":" \o Repeat("-", ColWidth(df, c) + 1)]) \o "|"

\* df.to_markdown(index=False): pipe table, no trailing newline
to_markdown(df) ==
    Join("\n", <<MdLine(df, df.columns), MdRule(df)>> \o
        [r \in 1..Len(df.rows) |->
            MdLine(df, [c \in 1..Len(df.columns) |-> CellText(df.rows[r][c])])])

\* str.lower() on the format names the model passes
Lower(s) == IF s = "CSV" THEN "csv" ELSE s

\* the if/elif chain on output_format.lower()
Render(df, output_format) ==
    IF Lower(output_format) = "csv" THEN Ok(to_csv(df))
    ELSE IF Lower(output_format) = "json" THEN Ok(to_json(df))
    ELSE IF Lower(output_format) = "markdown" THEN Ok(to_markdown(df))
    ELSE Raised("ValueError", "Unsupported output format: " \o output_format)

(* ------------------------------ format_prompt -------------------------- *)

\* the token a template carries where the data goes
Placeholder == "[formatted_data]"

RECURSIVE Replace(_, _, _)
\* Python str.replace(old, new) for a non-empty old: a left-to-right scan
\* that substitutes every non-overlapping occurrence and never rescans what
\* it has substituted
Replace(s, old, new) ==
    IF Len(s) < Len(old) THEN s
    ELSE IF SubSeq(s, 1, Len(old)) = old
    THEN new \o Replace(SubSeq(s, Len(old) + 1, Len(s)), old, new)
    ELSE SubSeq(s, 1, 1) \o Replace(SubSeq(s, 2, Len(s)), old, new)

RECURSIVE format_prompt_first(_, _)
\* format_prompt that substitutes the leftmost placeholder only
format_prompt_first(data_text, prompt_template) ==
    IF Len(prompt_template) < Len(Placeholder) THEN prompt_template
    ELSE IF SubSeq(prompt_template, 1, Len(Placeholder)) = Placeholder
    THEN data_text \o SubSeq(prompt_template, Len(Placeholder) + 1, Len(prompt_template))
    ELSE SubSeq(prompt_template, 1, 1)
         \o format_prompt_first(data_text, SubSeq(prompt_template, 2, Len(prompt_template)))

\* utils.format_prompt: prompt_template.replace("[formatted_data]", data)
format_prompt(data_text, prompt_template) ==
    Replace(prompt_template, Placeholder, data_text)

(* ------------------------------ Summarizer ----------------------------- *)

\* bytes pandas reports for the RangeIndex of a frame
IndexBytes == 128

\* bytes of one int64 value, and of one object pointer
WordBytes == 8

\* sys.getsizeof of an empty ASCII str
StrOverhead == 49

\* sys.getsizeof of the float object that stands for NaN
NaNBytes == 24

RECURSIVE Sum(_)
Sum(ns) == IF Len(ns) = 0 THEN 0 ELSE Head(ns) + Sum(Tail(ns))

\* df.memory_usage(deep=True).sum()
memory_usage(df) ==
    IndexBytes +
    Sum([c \in 1..Len(df.columns) |->
        IF df.dtypes[c] \in {"int64", "float64"} THEN WordBytes * Len(df.rows)
        ELSE Sum([r \in 1..Len(df.rows) |->
                IF df.rows[r][c].t = "nan" THEN WordBytes + NaNBytes
                ELSE WordBytes + StrOverhead + Len(CellText(df.rows[r][c]))])])

\* df.isnull().sum() for column c
MissingCount(df, c) ==
    Cardinality({r \in 1..Len(df.rows) : df.rows[r][c].t = "nan"})

\* df.select_dtypes(include=['number']).columns, as column positions
RECURSIVE SelectSeq2(_, _)
SelectSeq2(ns, keep) ==
    IF Len(ns) = 0 THEN <<>>
    ELSE (IF Head(ns) \in keep THEN <<Head(ns)>> ELSE <<>>)
         \o SelectSeq2(Tail(ns), keep)

\* a selection that lets every column through
NumericCols_all(df) == [c \in 1..Len(df.columns) |-> c]

NumericCols(df) ==
    SelectSeq2([c \in 1..Len(df.columns) |-> c],
               {c \in 1..Len(df.columns) : df.dtypes[c] \in {"int64", "float64"}})

\* digits after the decimal point of a '.4f' value, as a scale factor
Scale4 == 10000

\* a value scaled by Scale4, or the marker of an undefined statistic
Undefined == -1

RECURSIVE SortInts(_)
SortInts(ns) ==
    IF Len(ns) = 0 THEN <<>>
    ELSE LET m == CHOOSE k \in 1..Len(ns) : \A j \in 1..Len(ns) : ns[k] <= ns[j]
         IN <<ns[m]>> \o
            SortInts([j \in 1..(Len(ns) - 1) |-> IF j < m THEN ns[j] ELSE ns[j + 1]])

\* round(a / b) to the nearest integer, ties to even; a >= 0, b > 0
RoundDiv(a, b) ==
    LET q == a \div b
        r == a % b
    IN IF 2 * r > b \/ (2 * r = b /\ q % 2 = 1) THEN q + 1 ELSE q

RECURSIVE ISqrt(_, _, _)
\* the largest k in lo..hi with k * k <= v
ISqrt(v, lo, hi) ==
    IF lo >= hi THEN lo
    ELSE LET mid == (lo + hi + 1) \div 2
         IN IF mid * mid <= v THEN ISqrt(v, mid, hi) ELSE ISqrt(v, lo, mid - 1)

RECURSIVE Gcd(_, _)
Gcd(a, b) == IF b = 0 THEN a ELSE Gcd(b, a % b)

\* linear-interpolation percentile of the sorted values xs, q4 quarters
Quantile(xs, q4) ==
    LET n   == Len(xs)
        pos == (n - 1) * q4
        lo  == pos \div 4
        fr  == pos % 4
    IN IF fr = 0 THEN xs[lo + 1] * Scale4
       ELSE xs[lo + 1] * Scale4 + ((xs[lo + 2] - xs[lo + 1]) * fr * Scale4) \div 4

\* sample standard deviation (ddof = 1), scaled by Scale4 and rounded
Std(xs) ==
    LET n   == Len(xs)
        ds  == [k \in 1..n |-> xs[k] - xs[1]]
        num == n * Sum([k \in 1..n |-> ds[k] * ds[k]]) - Sum(ds) * Sum(ds)
        den == n * (n - 1)
    IN IF n < 2 THEN Undefined
       ELSE LET g  == Gcd(num, den)
                p  == num \div g
                q  == den \div g
                v  == (p * Scale4 * Scale4) \div q
                fr == (p * Scale4 * Scale4) % q
                k  == ISqrt(v, 0, 46340)
            IN IF v > k * k + k \/ (v = k * k + k /\ 4 * fr >= q)
               THEN k + 1 ELSE k

\* the values of column c that are not NaN, in row order
Values(df, c) ==
    Flatten([r \in 1..Len(df.rows) |->
        IF df.rows[r][c].t = "nan" THEN <<>> ELSE <<df.rows[r][c].n>>])

\* df[numeric_cols].describe() for one column: (statistic, scaled value);
\* NaN cells are left out of every statistic
Describe(df, c) ==
    LET xs == SortInts(Values(df, c))
        n  == Len(xs)
    IN IF n = 0
       THEN << <<"count", 0>>, <<"mean", Undefined>>, <<"std", Undefined>>,
               <<"min", Undefined>>, <<"25%", Undefined>>, <<"50%", Undefined>>,
               <<"75%", Undefined>>, <<"max", Undefined>> >>
       ELSE << <<"count", n * Scale4>>,
               <<"mean", RoundDiv(Sum(xs) * Scale4, n)>>,
               <<"std", Std(xs)>>,
               <<"min", xs[1] * Scale4>>,
               <<"25%", Quantile(xs, 1)>>,
               <<"50%", Quantile(xs, 2)>>,
               <<"75%", Quantile(xs, 3)>>,
               <<"max", xs[n] * Scale4>> >>

\* utils.get_data_summary; numeric_summary is the empty sequence when the
\* key is absent from the dictionary
get_data_summary(df) ==
    [rows           |-> Len(df.rows),
     columns        |-> Len(df.columns),
     column_types   |-> [c \in 1..Len(df.columns) |->
                            <<df.columns[c], df.dtypes[c]>>],
     missing_values |-> [c \in 1..Len(df.columns) |->
                            <<df.columns[c], MissingCount(df, c)>>],
     memory_usage   |-> memory_usage(df),
     has_numeric    |-> Len(NumericCols(df)) > 0,
     numeric_summary |-> [k \in 1..Len(NumericCols(df)) |->
                            <<df.columns[NumericCols(df)[k]],
                              Describe(df, NumericCols(df)[k])>>]]

\* a non-negative integer with exactly w digits, zero-padded on the left
ZeroPad(n, w) == Repeat("0", w - Len(ToString(n))) \o ToString(n)

\* f"{value:.4f}" of a value scaled by Scale4
Fixed4(v) == ToString(v \div Scale4) \o "." \o ZeroPad(v % Scale4, 4)

\* f"{bytes / 1024:.2f}"
Fixed2KB(bytes) ==
    LET h == RoundDiv(bytes * 100, 1024)
    IN ToString(h \div 100) \o "." \o ZeroPad(h % 100, 2)

\* f"{n:,}"
Thousands(n) ==
    IF n < 1000 THEN ToString(n)
    ELSE ToString(n \div 1000) \o "," \o ZeroPad(n % 1000, 3)

\* the lines of a summary that lists the missing count of every column
SummaryLines_allmissing(summary) ==
    << "=== DATA SUMMARY ===",
       "Rows: " \o Thousands(summary.rows),
       "Columns: " \o ToString(summary.columns),
       "Memory Usage: " \o Fixed2KB(summary.memory_usage) \o " KB",
       "",
       "Column Types:" >>
    \o [c \in 1..Len(summary.column_types) |->
            "  " \o summary.column_types[c][1] \o ": " \o summary.column_types[c][2]]
    \o << "", "Missing Values:" >>
    \o Flatten([c \in 1..Len(summary.missing_values) |->
            IF summary.missing_values[c][2] >= 0
            THEN << "  " \o summary.missing_values[c][1] \o ": "
                    \o ToString(summary.missing_values[c][2]) >>
            ELSE << >>])
    \o (IF summary.has_numeric
        THEN << "", "Numeric Column Statistics:" >>
             \o Flatten([k \in 1..Len(summary.numeric_summary) |->
                    << "  " \o summary.numeric_summary[k][1] \o ":" >>
                    \o Flatten([j \in 1..Len(summary.numeric_summary[k][2]) |->
                        LET st == summary.numeric_summary[k][2][j]
                        IN IF st[2] # Undefined
                           THEN << "    " \o st[1] \o ": " \o Fixed4(st[2]) >>
                           ELSE << >>])])
        ELSE << >>)

\* the lines of utils.format_summary, before they are joined
SummaryLines(summary) ==
    << "=== DATA SUMMARY ===",
       "Rows: " \o Thousands(summary.rows),
       "Columns: " \o ToString(summary.columns),
       "Memory Usage: " \o Fixed2KB(summary.memory_usage) \o " KB",
       "",
       "Column Types:" >>
    \o [c \in 1..Len(summary.column_types) |->
            "  " \o summary.column_types[c][1] \o ": " \o summary.column_types[c][2]]
    \o << "", "Missing Values:" >>
    \o Flatten([c \in 1..Len(summary.missing_values) |->
            IF summary.missing_values[c][2] > 0
            THEN << "  " \o summary.missing_values[c][1] \o ": "
                    \o ToString(summary.missing_values[c][2]) >>
            ELSE << >>])
    \o (IF summary.has_numeric
        THEN << "", "Numeric Column Statistics:" >>
             \o Flatten([k \in 1..Len(summary.numeric_summary) |->
                    << "  " \o summary.numeric_summary[k][1] \o ":" >>
                    \o Flatten([j \in 1..Len(summary.numeric_summary[k][2]) |->
                        LET st == summary.numeric_summary[k][2][j]
                        IN IF st[2] # Undefined
                           THEN << "    " \o st[1] \o ": " \o Fixed4(st[2]) >>
                           ELSE << >>])])
        ELSE << >>)

\* utils.format_summary
format_summary(summary) == Join("\n", SummaryLines(summary))

(* ------------------------------ SheetLoader ---------------------------- *)

\* The sheet names a workbook may declare, in their declared order, and a
\* name no workbook declares.
SheetNames == <<"S1", "S2", "S3", "S4">>

Missing == "Nope"

AgeBase == [n \in {SheetNames[k] : k \in 1..Len(SheetNames)} |->
              10 * (CHOOSE k \in 1..Len(SheetNames) : SheetNames[k] = n)]

\* the cells of a source sheet with n data rows below its header row, the
\* Name cell of the last `absent` rows holding nothing
SourceRows(name, n, absent) ==
    [i \in 1..n |->
        << IF i > n - absent THEN Blank ELSE Str(name \o "-" \o ToString(i)),
           Int64(AgeBase[name] + i) >>]

\* na_filter=False: a cell that holds nothing is read as the empty string,
\* never as NaN
ReadCell(c) == IF c.t = "blank" THEN Str("") ELSE c

\* the rows pd.read_excel(..., na_filter=False) delivers for a sheet
SheetRows(sheet) ==
    LET src == SourceRows(sheet.name, sheet.nrows, sheet.absent)
    IN [i \in 1..Len(src) |-> [c \in 1..Len(src[i]) |-> ReadCell(src[i][c])]]

\* a workbook source: whether it opens at all, and the sheets it declares
\* in order, each with its number of data rows and of absent Name cells
Declared(wb) == [k \in 1..Len(wb.sheets) |-> wb.sheets[k].name]

\* row counts a sheet may have: none, one, or the most the model allows
RowCounts == {0, 1, MaxSheetRows}

\* the first sheet may lack one Name cell when it has the most rows
Workbooks ==
    { [readable |-> FALSE,
       sheets |-> <<[name |-> SheetNames[1], nrows |-> 0, absent |-> 0]>>] }
    \cup
    { [readable |-> TRUE,
       sheets |-> [k \in 1..Len(p[1]) |->
                    [name |-> SheetNames[k], nrows |-> p[1][k],
                     absent |-> IF k = 1 THEN p[2] ELSE 0]]] :
        p \in { q \in (UNION { [1..k -> RowCounts] : k \in 1..MaxSheets })
                        \X {0, 1} :
                    q[2] = 1 => q[1][1] = MaxSheetRows } }

InSeq(x, xs) == \E k \in 1..Len(xs) : xs[k] = x

IndexOf(x, xs) == CHOOSE k \in 1..Len(xs) : xs[k] = x

\* pd.read_excel(file_path, sheet_name=<name>, engine='openpyxl',
\* na_filter=False)
read_excel(wb, sheet) ==
    IF ~wb.readable THEN Raised("BadZipFile", "File is not a zip file")
    ELSE IF ~InSeq(sheet, Declared(wb))
         THEN Raised("ValueError", "Worksheet named '" \o sheet \o "' not found")
    ELSE Ok(DataFrame(SheetRows(wb.sheets[IndexOf(sheet, Declared(wb))])))

\* pd.read_excel(file_path, sheet_name=None, ...): every sheet, in declared
\* order, as a dict (a sequence of entries with unique names)
read_excel_all(wb) ==
    IF ~wb.readable THEN Raised("BadZipFile", "File is not a zip file")
    ELSE Ok([k \in 1..Len(wb.sheets) |->
                [name |-> wb.sheets[k].name,
                 df   |-> DataFrame(SheetRows(wb.sheets[k]))]])

\* d[key] = value on an insertion-ordered dict
DictSet(d, key, value) ==
    IF \E k \in 1..Len(d) : d[k].name = key
    THEN [k \in 1..Len(d) |-> IF d[k].name = key
                               THEN [name |-> key, df |-> value] ELSE d[k]]
    ELSE Append(d, [name |-> key, df |-> value])

RECURSIVE LoadList(_, _, _, _, _)
\* the for loop over sheet_names with its per-sheet try/except
LoadList(wb, names, i, sheets, warned) ==
    IF i > Len(names) THEN [sheets |-> sheets, warnings |-> warned]
    ELSE LET r == read_excel(wb, names[i])
         IN IF r.status = "raised"
            THEN LoadList(wb, names, i + 1, sheets,
                    Append(warned, "Warning: Could not read sheet '" \o names[i]
                                   \o "': " \o r.msg))
            ELSE LoadList(wb, names, i + 1, DictSet(sheets, names[i], r.value), warned)

\* sheet selectors: None, one name, or a list of names
SelNone == [kind |-> "none", names |-> <<>>]

SelStr(n) == [kind |-> "str", names |-> <<n>>]

SelList(ns) == [kind |-> "list", names |-> ns]

\* an emptiness check that never fires
NotAllSheets_never(sheets) == FALSE

\* "if not all_sheets": the dict is empty
NotAllSheets(sheets) == Len(sheets) = 0

\* the "Read Excel file" block shared by both operations, up to and
\* including the "if not all_sheets" check
Load(wb, sheet_names) ==
    IF sheet_names.kind = "none"
    THEN LET r == read_excel_all(wb)
         IN IF r.status = "raised"
            THEN [status |-> "raised", type |-> r.type, msg |-> r.msg,
                  sheets |-> <<>>, warnings |-> <<>>]
            ELSE IF NotAllSheets(r.value)
            THEN [status |-> "raised", type |-> "ValueError",
                  msg |-> "No sheets could be read from the Excel file",
                  sheets |-> <<>>, warnings |-> <<>>]
            ELSE [status |-> "ok", sheets |-> r.value, warnings |-> <<>>]
    ELSE IF sheet_names.kind = "str"
    THEN LET r == read_excel(wb, sheet_names.names[1])
         IN IF r.status = "raised"
            THEN [status |-> "raised", type |-> r.type, msg |-> r.msg,
                  sheets |-> <<>>, warnings |-> <<>>]
            ELSE [status |-> "ok",
                  sheets |-> <<[name |-> sheet_names.names[1], df |-> r.value]>>,
                  warnings |-> <<>>]
    ELSE LET l == LoadList(wb, sheet_names.names, 1, <<>>, <<>>)
         IN IF NotAllSheets(l.sheets)
            THEN [status |-> "raised", type |-> "ValueError",
                  msg |-> "No sheets could be read from the Excel file",
                  sheets |-> <<>>, warnings |-> l.warnings]
            ELSE [status |-> "ok", sheets |-> l.sheets, warnings |-> l.warnings]

\* next((df for df in all_sheets.values() if not df.empty), None), as the
\* position of that sheet, 0 for None
FirstNonEmpty(sheets) ==
    IF \E k \in 1..Len(sheets) : ~DfEmpty(sheets[k].df)
    THEN CHOOSE k \in 1..Len(sheets) :
            /\ ~DfEmpty(sheets[k].df)
            /\ \A j \in 1..(k - 1) : DfEmpty(sheets[j].df)
    ELSE 0

\* the outcome of a pipeline call: its result and what it left behind
Outcome(res, sheets, warned) ==
    [result |-> res, all_sheets |-> sheets, warnings |-> warned]

(* ------------------------------ Pipeline ------------------------------- *)

\* the loop variable written back into the dict it iterates
LoopAssign_store(sheets, i, df) == [sheets EXCEPT ![i].df = df]

\* "df = df.fillna("")" inside "for sheet_name, df in all_sheets.items()":
\* the assignment rebinds the loop variable only, the dict entry keeps the
\* frame it held
LoopAssign(sheets, i, df) == sheets

\* the outcome of a loop or body: its result and the dict it leaves
Step(res, sheets) == [res |-> res, sheets |-> sheets]

RECURSIVE FormatSheets(_, _, _, _)
\* the "Process each sheet" loop of excel_to_formatted_text
FormatSheets(sheets, i, all_formatted_data, output_format) ==
    IF i > Len(sheets) THEN Step(Ok(all_formatted_data), sheets)
    ELSE IF DfEmpty(sheets[i].df)
    THEN FormatSheets(sheets, i + 1, all_formatted_data, output_format)
    ELSE LET df             == fillna(sheets[i].df)
             after          == LoopAssign(sheets, i, df)
             formatted_data == Render(df, output_format)
             sheet_header   == "\n=== SHEET: " \o sheets[i].name \o " ===\n"
         IN IF formatted_data.status = "raised" THEN Step(formatted_data, after)
            ELSE FormatSheets(after, i + 1,
                    Append(all_formatted_data, sheet_header \o formatted_data.value),
                    output_format)

\* the formatted body with sheet blocks joined by a single line break
FormattedBody_oneline(sheets, output_format, prompt_template, include_summary) ==
    LET loop == FormatSheets(sheets, 1, <<>>, output_format)
    IN IF loop.res.status = "raised" THEN loop
       ELSE LET combined_data == Join("\n", loop.res.value)
                first         == FirstNonEmpty(loop.sheets)
                with_summary  ==
                    IF include_summary /\ first # 0
                    THEN format_summary(get_data_summary(loop.sheets[first].df))
                         \o "\n\n" \o combined_data
                    ELSE combined_data
            IN Step(Ok(format_prompt(with_summary, prompt_template)), loop.sheets)

\* what excel_to_formatted_text does after its loop: combine the blocks,
\* put the summary in front, apply the template
FormattedTail(all_formatted_data, sheets, prompt_template, include_summary) ==
    LET combined_data == Join("\n\n", all_formatted_data)
        first         == FirstNonEmpty(sheets)
        with_summary  ==
            IF include_summary /\ first # 0
            THEN format_summary(get_data_summary(sheets[first].df))
                 \o "\n\n" \o combined_data
            ELSE combined_data
    IN Ok(format_prompt(with_summary, prompt_template))

\* the body of the try block of excel_to_formatted_text after loading
FormattedBody(sheets, output_format, prompt_template, include_summary) ==
    LET loop == FormatSheets(sheets, 1, <<>>, output_format)
    IN IF loop.res.status = "raised" THEN loop
       ELSE Step(FormattedTail(loop.res.value, loop.sheets, prompt_template,
                               include_summary),
                 loop.sheets)

\* except Exception as e: raise Exception(prefix + str(e))
Reraise(prefix, r) ==
    IF r.status = "raised" THEN Raised("Exception", prefix \o r.msg) ELSE r

\* excel_to_formatted_text that formats the first chunk_size rows of each
\* sheet only
excel_to_formatted_text_capped(wb, sheet_names, output_format, chunk_size, prompt_template, include_summary, evaluate_formulas) ==
    LET l == Load(wb, sheet_names)
    IN IF l.status = "raised"
       THEN Outcome(Reraise("Error converting Excel file: ", Raised(l.type, l.msg)),
                    l.sheets, l.warnings)
       ELSE LET capped == [k \in 1..Len(l.sheets) |->
                            [name |-> l.sheets[k].name,
                             df   |-> Iloc(l.sheets[k].df, 0, Max(chunk_size, 1))]]
                body   == FormattedBody(capped, output_format, prompt_template,
                                        include_summary)
            IN Outcome(Reraise("Error converting Excel file: ", body.res),
                       l.sheets, l.warnings)

\* converter.excel_to_formatted_text
excel_to_formatted_text(wb, sheet_names, output_format, chunk_size, prompt_template, include_summary, evaluate_formulas) ==
    LET l == Load(wb, sheet_names)
    IN IF l.status = "raised"
       THEN Outcome(Reraise("Error converting Excel file: ", Raised(l.type, l.msg)),
                    l.sheets, l.warnings)
       ELSE LET body == FormattedBody(l.sheets, output_format, prompt_template,
                                      include_summary)
            IN Outcome(Reraise("Error converting Excel file: ", body.res),
                       body.sheets, l.warnings)

\* What the name chunk_df denotes inside excel_to_chunked_text.  The for
\* statement "for i, chunk_df in enumerate(df_chunks)" assigns the name, so
\* it is a local variable of the whole function body: unbound until that
\* loop first runs, a DataFrame afterwards, and never the imported function.
EntryBinding == "unbound"

\* df_chunks = chunk_df(df, chunk_size), evaluated with the local name
CallLocal(binding, df, chunk_size) ==
    IF binding = "unbound"
    THEN Raised("UnboundLocalError",
                "cannot access local variable 'chunk_df' where it is not associated with a value")
    ELSE IF binding = "DataFrame"
    THEN Raised("TypeError", "'DataFrame' object is not callable")
    ELSE chunk_df(df, chunk_size)

RECURSIVE ChunkTexts(_, _, _, _, _, _)
\* the inner loop "for i, chunk_df in enumerate(df_chunks)"; i is 0-based
ChunkTexts(sheet_name, df_chunks, i, chunks, output_format, prompt_template) ==
    IF i >= Len(df_chunks) THEN Ok(chunks)
    ELSE LET formatted_chunk == Render(df_chunks[i + 1], output_format)
             chunk_header    == "\n=== SHEET: " \o sheet_name \o " - CHUNK "
                                \o ToString(i + 1) \o "/"
                                \o ToString(Len(df_chunks)) \o " ===\n"
         IN IF formatted_chunk.status = "raised" THEN formatted_chunk
            ELSE ChunkTexts(sheet_name, df_chunks, i + 1,
                    Append(chunks,
                        format_prompt(chunk_header \o formatted_chunk.value,
                                      prompt_template)),
                    output_format, prompt_template)

RECURSIVE ChunkSheets(_, _, _, _, _, _, _)
\* the outer loop "for sheet_name, df in all_sheets.items()"
ChunkSheets(sheets, i, chunks, binding, output_format, chunk_size, prompt_template) ==
    IF i > Len(sheets) THEN Step(Ok(chunks), sheets)
    ELSE IF DfEmpty(sheets[i].df)
    THEN ChunkSheets(sheets, i + 1, chunks, binding, output_format, chunk_size,
                     prompt_template)
    ELSE LET df        == fillna(sheets[i].df)
             after     == LoopAssign(sheets, i, df)
             df_chunks == CallLocal(binding, df, chunk_size)
         IN IF df_chunks.status = "raised" THEN Step(df_chunks, after)
            ELSE LET inner == ChunkTexts(sheets[i].name, df_chunks.value, 0,
                                         chunks, output_format, prompt_template)
                 IN IF inner.status = "raised" THEN Step(inner, after)
                    ELSE ChunkSheets(after, i + 1, inner.value,
                            IF Len(df_chunks.value) > 0 THEN "DataFrame"
                            ELSE binding,
                            output_format, chunk_size, prompt_template)

\* the chunked body with a summary element whenever one is asked for, data
\* chunks or not
ChunkedBody_eager(sheets, output_format, chunk_size, prompt_template, include_summary) ==
    LET loop == ChunkSheets(sheets, 1, <<>>, EntryBinding, output_format,
                            chunk_size, prompt_template)
    IN IF loop.res.status = "raised" THEN loop
       ELSE LET first == Max(FirstNonEmpty(loop.sheets), 1)
            IN IF include_summary
               THEN Step(Ok(<<format_prompt(
                                format_summary(get_data_summary(loop.sheets[first].df)),
                                prompt_template)>> \o loop.res.value),
                         loop.sheets)
               ELSE loop

\* what excel_to_chunked_text does after its loops: put the templated
\* summary in front of the chunks when there are any
ChunkedTail(chunks, sheets, prompt_template, include_summary) ==
    LET first == FirstNonEmpty(sheets)
    IN IF include_summary /\ Len(chunks) > 0 /\ first # 0
       THEN Ok(<<format_prompt(format_summary(get_data_summary(sheets[first].df)),
                               prompt_template)>> \o chunks)
       ELSE Ok(chunks)

\* the body of the try block of excel_to_chunked_text after loading
ChunkedBody(sheets, output_format, chunk_size, prompt_template, include_summary) ==
    LET loop == ChunkSheets(sheets, 1, <<>>, EntryBinding, output_format,
                            chunk_size, prompt_template)
    IN IF loop.res.status = "raised" THEN loop
       ELSE Step(ChunkedTail(loop.res.value, loop.sheets, prompt_template,
                             include_summary),
                 loop.sheets)

\* converter.excel_to_chunked_text
excel_to_chunked_text(wb, sheet_names, output_format, chunk_size, prompt_template, include_summary) ==
    LET l == Load(wb, sheet_names)
    IN IF l.status = "raised"
       THEN Outcome(Reraise("Error converting Excel file to chunks: ",
                            Raised(l.type, l.msg)),
                    l.sheets, l.warnings)
       ELSE LET body == ChunkedBody(l.sheets, output_format, chunk_size,
                                     prompt_template, include_summary)
            IN Outcome(Reraise("Error converting Excel file to chunks: ", body.res),
                       body.sheets, l.warnings)

(* ------------------------------ source handles ------------------------ *)

\* Handles a pd.read_excel call leaves open when it returns or raises: it
\* closes the ExcelFile it opened itself on every path.
ReadExcelHandles == 0

\* pd.ExcelFile(file_path): opens the source and reads the workbook's
\* directory; when that fails it closes what it opened and raises
ExcelFile(wb) ==
    IF ~wb.readable THEN Raised("BadZipFile", "File is not a zip file")
    ELSE Ok(Declared(wb))

\* utils.detect_sheets
detect_sheets(wb) ==
    LET xls == ExcelFile(wb)
    IN IF xls.status = "raised"
       THEN Raised("ValueError", "Could not read Excel file: " \o xls.msg)
       ELSE Ok(xls.value)

\* Handles detect_sheets may leave open.  It never calls xls.close() and
\* uses no with-block, so after a successful open the handle stays open
\* until the interpreter finalises the unreachable ExcelFile object, which
\* may or may not have happened when the caller resumes.
DetectSheetsHandles(wb) == IF ExcelFile(wb).status = "ok" THEN {0, 1} ELSE {0}

\* validate_excel_file without its except clause: a read failure reaches
\* the caller
validate_excel_file_noexcept(wb) ==
    LET r == read_excel(wb, Declared(wb)[1])
    IN IF r.status = "raised" THEN r ELSE Ok(TRUE)

\* converter.validate_excel_file: read_excel of the first sheet inside
\* try/except Exception
validate_excel_file(wb) ==
    LET r == read_excel(wb, Declared(wb)[1])
    IN IF r.status = "raised" THEN Ok(FALSE) ELSE Ok(TRUE)

(* ------------------------------ command line -------------------------- *)

\* one step of a CLI run that is visible from outside: a call of a library
\* operation or the writing of the output file, and how it ended
Event(call, status) == [call |-> call, status |-> status]

\* the end of a CLI run: what it did in order, the process exit status and
\* the content of the output file ("" is a file, NoOutput is no file)
NoOutput == [written |-> FALSE, text |-> ""]

Written(text) == [written |-> TRUE, text |-> text]

Exit(events, code, output) ==
    [status |-> "exit", events |-> events, code |-> code, output |-> output]

\* the "Save to output file" block: open(args.output, "w") and f.write
Save(events, text, writable) ==
    IF writable
    THEN Exit(Append(events, Event("write", "ok")), 0, Written(text))
    ELSE Exit(Append(events, Event("write", "raised")), 1, NoOutput)

\* a CLI run that saves an empty file and exits 0 when the conversion fails
main_lenient(wb, a) ==
    IF ~a.exists THEN Exit(<<>>, 1, NoOutput)
    ELSE LET r == IF a.chunk
                  THEN excel_to_chunked_text(wb, a.sheets, a.format, a.chunk_size,
                            a.prompt_template, a.summary).result
                  ELSE excel_to_formatted_text(wb, a.sheets, a.format, a.chunk_size,
                            a.prompt_template, a.summary, a.evaluate_formulas).result
             ev == <<Event(IF a.chunk THEN "excel_to_chunked_text"
                           ELSE "excel_to_formatted_text", r.status)>>
         IN Save(ev, IF r.status = "raised" THEN ""
                     ELSE IF a.chunk THEN Join("\n\n", r.value) ELSE r.value,
                 a.writable)

\* the conversion try block of cli.main around a pipeline call that ended
\* as r: a failed call leaves through "except Exception" with status 1, the
\* chunks of a chunked call are joined by blank lines, and the text is saved
Convert(events, call, r, chunk, writable) ==
    LET ev == Append(events, Event(call, r.status))
    IN IF r.status = "raised" THEN Exit(ev, 1, NoOutput)
       ELSE Save(ev, IF chunk THEN Join("\n\n", r.value) ELSE r.value, writable)

\* cli.main after parse_args, up to the exit of the process
main(wb, a) ==
    IF ~a.exists THEN Exit(<<>>, 1, NoOutput)
    ELSE LET valid == validate_excel_file(wb)
             ev1   == <<Event("validate_excel_file", valid.status)>>
         IN IF valid.status = "raised" \/ ~valid.value THEN Exit(ev1, 1, NoOutput)
            ELSE IF a.list_sheets
            THEN LET sheets == detect_sheets(wb)
                 IN Exit(Append(ev1, Event("detect_sheets", sheets.status)),
                         IF sheets.status = "raised" THEN 1 ELSE 0, NoOutput)
            ELSE IF a.validate THEN Exit(ev1, 0, NoOutput)
            ELSE IF a.chunk
            THEN Convert(ev1, "excel_to_chunked_text",
                    excel_to_chunked_text(wb, a.sheets, a.format, a.chunk_size,
                        a.prompt_template, a.summary).result,
                    TRUE, a.writable)
            ELSE Convert(ev1, "excel_to_formatted_text",
                    excel_to_formatted_text(wb, a.sheets, a.format, a.chunk_size,
                        a.prompt_template, a.summary, a.evaluate_formulas).result,
                    FALSE, a.writable)

(* ------------------------------ inputs --------------------------------- *)

\* names a caller asks for: the first two sheets and a missing one
Selectable == {SheetNames[1], SheetNames[2], Missing}

Selectors ==
    {SelNone} \cup {SelStr(n) : n \in Selectable} \cup
    {SelList(ns) : ns \in UNION {[1..k -> Selectable] : k \in 0..MaxSel}}

Formats == {"csv", "json", "markdown", "xml"}

Supported(f) == Lower(f) \in {"csv", "json", "markdown"}

DefaultTemplate == "Analyze this data: [formatted_data]"

Templates == {DefaultTemplate, "No placeholder"}

\* templates handed to excel_to_chunked_text
ChunkedTemplates == {DefaultTemplate}

ChunkSizes == (-1)..MaxChunkSize

\* the default chunk_size of both operations
DefaultChunkSize == 5000

\* chunk sizes handed to excel_to_chunked_text
PipelineChunkSizes == {-1, 0, 1, DefaultChunkSize}

\* (chunk_size, evaluate_formulas) handed to excel_to_formatted_text
FormattedExtras == {<<DefaultChunkSize, FALSE>>, <<1, TRUE>>}

\* rows of the tables handed to chunk_df directly
RowValues == { <<Str("a"), Int64(1)>>, <<Str("b"), Int64(2)>> }

Tables == { DataFrame(rows) :
            rows \in UNION { [1..k -> RowValues] : k \in 0..MaxLen } }

\* data and templates handed to format_prompt directly
PromptData == {"", "data", "a[b]"}

PromptTemplates ==
    { DefaultTemplate, "Test: [formatted_data]", "No placeholder",
      "[formatted_data] and [formatted_data]", "[formatted_data",
      "[formatted[formatted_data]_data]" }

\* column layouts of the tables handed to get_data_summary directly, each
\* column a (name, dtype) pair
Layouts ==
    { << <<"Name", "object">> >>,
      << <<"Name", "object">>, <<"Age", "int64">> >>,
      << <<"Score", "float64">>, <<"Name", "object">> >> }

\* the cells a column of a dtype may hold; an int64 column has no NaN
CellsOf(dtype) ==
    IF dtype = "object" THEN {Str("a"), NaN}
    ELSE IF dtype = "int64" THEN {Int64(1), Int64(4)}
    ELSE {Float64(2), NaN}

RowsOf(layout) ==
    { r \in [1..Len(layout) -> {Str("a"), NaN, Int64(1), Int64(4), Float64(2)}] :
        \A c \in 1..Len(layout) : r[c] \in CellsOf(layout[c][2]) }

SummaryTables ==
    UNION { { [columns |-> [c \in 1..Len(layout) |-> layout[c][1]],
               dtypes  |-> [c \in 1..Len(layout) |-> layout[c][2]],
               rows    |-> rows] :
                rows \in UNION { [1..k -> RowsOf(layout)] : k \in 0..MaxSummaryRows } } :
            layout \in Layouts }

\* the command lines of the model: -s gives a list of names or is absent,
\* the other options keep their defaults unless they are flags
CliSheets == {SelNone, SelList(<<SheetNames[1]>>), SelList(<<Missing>>)}

CliArgs ==
    [exists : BOOLEAN, writable : BOOLEAN, list_sheets : BOOLEAN,
     validate : BOOLEAN, chunk : BOOLEAN, summary : BOOLEAN,
     sheets : CliSheets, format : {"csv"}, chunk_size : {DefaultChunkSize},
     prompt_template : {DefaultTemplate}, evaluate_formulas : {FALSE}]

NoArgs == [none |-> TRUE]

\* no call is being followed step by step
NoCalls == [none |-> TRUE]

NoResult == [status |-> "none"]

(* ------------------------------ actions -------------------------------- *)

Init ==
    /\ workbook \in Workbooks
    /\ pc = "idle"
    /\ op = "none"
    /\ args = NoArgs
    /\ result = NoResult
    /\ all_sheets = <<>>
    /\ warnings = <<>>
    /\ handles = 0
    /\ calls = NoCalls

\* a caller invokes excel_to_formatted_text and receives its outcome
CallFormatted ==
    /\ pc = "idle"
    /\ \E sel \in Selectors, fmt \in Formats, ex \in FormattedExtras,
          tpl \in Templates, summ \in BOOLEAN :
        LET o == excel_to_formatted_text(workbook, sel, fmt, ex[1], tpl, summ, ex[2])
        IN /\ op' = "formatted"
           /\ args' = [sheet_names |-> sel, output_format |-> fmt,
                       chunk_size |-> ex[1], prompt_template |-> tpl,
                       include_summary |-> summ, evaluate_formulas |-> ex[2]]
           /\ result' = o.result
           /\ all_sheets' = o.all_sheets
           /\ warnings' = o.warnings
    /\ handles' = ReadExcelHandles
    /\ pc' = "returned"
    /\ UNCHANGED <<workbook, calls>>

\* a caller invokes excel_to_chunked_text and receives its outcome
CallChunked ==
    /\ pc = "idle"
    /\ \E sel \in Selectors, fmt \in Formats, cs \in PipelineChunkSizes,
          tpl \in ChunkedTemplates, summ \in BOOLEAN :
        LET o == excel_to_chunked_text(workbook, sel, fmt, cs, tpl, summ)
        IN /\ op' = "chunked"
           /\ args' = [sheet_names |-> sel, output_format |-> fmt,
                       chunk_size |-> cs, prompt_template |-> tpl,
                       include_summary |-> summ]
           /\ result' = o.result
           /\ all_sheets' = o.all_sheets
           /\ warnings' = o.warnings
    /\ handles' = ReadExcelHandles
    /\ pc' = "returned"
    /\ UNCHANGED <<workbook, calls>>

\* a caller invokes utils.chunk_df on a table of its own
CallChunkDf ==
    /\ pc = "idle"
    /\ \E df \in Tables, cs \in ChunkSizes :
        /\ op' = "chunk_df"
        /\ args' = [df |-> df, chunk_size |-> cs]
        /\ result' = chunk_df(df, cs)
    /\ all_sheets' = <<>>
    /\ warnings' = <<>>
    /\ pc' = "returned"
    /\ UNCHANGED <<workbook, handles, calls>>

\* a caller invokes utils.format_prompt on a text and a template of its own
CallFormatPrompt ==
    /\ pc = "idle"
    /\ \E data \in PromptData, tpl \in PromptTemplates :
        /\ op' = "format_prompt"
        /\ args' = [data_text |-> data, prompt_template |-> tpl]
        /\ result' = Ok(format_prompt(data, tpl))
    /\ all_sheets' = <<>>
    /\ warnings' = <<>>
    /\ pc' = "returned"
    /\ UNCHANGED <<workbook, handles, calls>>

\* a caller invokes utils.get_data_summary on a table of its own
CallGetDataSummary ==
    /\ pc = "idle"
    /\ \E df \in SummaryTables :
        /\ op' = "get_data_summary"
        /\ args' = [df |-> df]
        /\ result' = Ok(get_data_summary(df))
    /\ all_sheets' = <<>>
    /\ warnings' = <<>>
    /\ pc' = "returned"
    /\ UNCHANGED <<workbook, handles, calls>>

\* a caller invokes utils.format_summary on a summary get_data_summary made
CallFormatSummary ==
    /\ pc = "idle"
    /\ \E df \in SummaryTables :
        /\ op' = "format_summary"
        /\ args' = [summary |-> get_data_summary(df)]
        /\ result' = Ok(format_summary(get_data_summary(df)))
    /\ all_sheets' = <<>>
    /\ warnings' = <<>>
    /\ pc' = "returned"
    /\ UNCHANGED <<workbook, handles, calls>>

\* a caller invokes utils.detect_sheets on the source
CallDetectSheets ==
    /\ pc = "idle"
    /\ op' = "detect_sheets"
    /\ args' = NoArgs
    /\ result' = detect_sheets(workbook)
    /\ handles' \in DetectSheetsHandles(workbook)
    /\ all_sheets' = <<>>
    /\ warnings' = <<>>
    /\ pc' = "returned"
    /\ UNCHANGED <<workbook, calls>>

\* a caller invokes converter.validate_excel_file on the source
CallValidate ==
    /\ pc = "idle"
    /\ op' = "validate_excel_file"
    /\ args' = NoArgs
    /\ result' = validate_excel_file(workbook)
    /\ handles' = ReadExcelHandles
    /\ all_sheets' = <<>>
    /\ warnings' = <<>>
    /\ pc' = "returned"
    /\ UNCHANGED <<workbook, calls>>

\* the command-line front end runs once, from parsed arguments to exit
RunCli ==
    /\ pc = "idle"
    /\ \E a \in CliArgs :
        /\ op' = "cli"
        /\ args' = a
        /\ result' = main(workbook, a)
    /\ handles' = 0
    /\ all_sheets' = <<>>
    /\ warnings' = <<>>
    /\ pc' = "returned"
    /\ UNCHANGED <<workbook, calls>>

\* the caller is done with the result; nothing of the call persists, and
\* whatever it left unreachable has been finalised
Discard ==
    /\ pc = "returned"
    /\ pc' = "idle"
    /\ op' = "none"
    /\ args' = NoArgs
    /\ result' = NoResult
    /\ all_sheets' = <<>>
    /\ warnings' = <<>>
    /\ handles' = 0
    /\ UNCHANGED <<workbook, calls>>

Next ==
    \/ CallFormatted
    \/ CallChunked
    \/ CallChunkDf
    \/ CallFormatPrompt
    \/ CallGetDataSummary
    \/ CallFormatSummary
    \/ CallDetectSheets
    \/ CallValidate
    \/ RunCli
    \/ Discard

Spec == Init /\ [][Next]_vars

(* ------------------------------ concurrent callers --------------------- *)

\* Two callers run the pipeline operations at the same time.  A call is
\* followed from its entry to its return: loading, one iteration of its
\* sheet loop at a time, and what follows the loop; steps of different calls
\* interleave in any order.
Callers == {"A", "B"}

\* the sources the concurrent callers read: at most two sheets
ConcurrentWorkbooks ==
    { wb \in Workbooks :
        /\ Len(wb.sheets) <= 2
        /\ \A k \in 1..Len(wb.sheets) : wb.sheets[k].absent = 0 }

\* the arguments of a concurrent call, with the operation it calls
ConcurrentArgs ==
    [op : {"formatted", "chunked"},
     sheet_names : {SelNone, SelList(<<SheetNames[2], SheetNames[1]>>)},
     output_format : {"csv", "xml"}, chunk_size : {1},
     prompt_template : {DefaultTemplate}, include_summary : BOOLEAN]

\* the local variables of a call that has not been entered
IdleFrame ==
    [pc |-> "idle", args |-> NoArgs, sheets |-> <<>>, i |-> 0,
     binding |-> EntryBinding, result |-> NoResult, overlapped |-> FALSE]

\* the frame of a call that has returned or raised
ReturnedFrame(f, res) == [f EXCEPT !.pc = "returned", !.result = res]

\* no call entered, no list allocated
IdleCalls ==
    [frames |-> [c \in Callers |-> IdleFrame], lists |-> [c \in Callers |-> <<>>]]

\* one list object that every call appends to
ListOf_shared(c) == "A"

\* "all_formatted_data = []" and "chunks = []": each call makes a new list
\* object, which only its own frame refers to
ListOf(c) == c

\* the message prefix of the operation's except clause
ErrorPrefix(a) ==
    IF a.op = "formatted" THEN "Error converting Excel file: "
    ELSE "Error converting Excel file to chunks: "

\* the call entered with arguments a, up to the first iteration of its loop
Enter(a, l) ==
    IF l.status = "raised"
    THEN ReturnedFrame([IdleFrame EXCEPT !.args = a],
                       Reraise(ErrorPrefix(a), Raised(l.type, l.msg)))
    ELSE [IdleFrame EXCEPT !.pc = "loop", !.args = a, !.sheets = l.sheets, !.i = 1]

\* one iteration of the sheet loop of the call's operation on sheet f.i,
\* appending to the list acc
Iteration(f, acc) ==
    IF f.args.op = "formatted"
    THEN FormatSheets(<<f.sheets[f.i]>>, 1, acc, f.args.output_format)
    ELSE ChunkSheets(<<f.sheets[f.i]>>, 1, acc, f.binding, f.args.output_format,
                     f.args.chunk_size, f.args.prompt_template)

\* the frame after an iteration that ended as step; the inner loop of
\* excel_to_chunked_text binds the name chunk_df when it appends a chunk
Advance(f, acc, step, busy) ==
    IF step.res.status = "raised"
    THEN ReturnedFrame([f EXCEPT !.overlapped = @ \/ busy],
                       Reraise(ErrorPrefix(f.args), step.res))
    ELSE [f EXCEPT !.i = @ + 1,
                   !.sheets[f.i] = step.sheets[1],
                   !.binding = IF f.args.op = "chunked" /\ Len(step.res.value) > Len(acc)
                               THEN "DataFrame" ELSE @,
                   !.overlapped = @ \/ busy]

\* what the call does after its loop, on the list it filled
AfterLoop(f, acc) ==
    IF f.args.op = "formatted"
    THEN FormattedTail(acc, f.sheets, f.args.prompt_template, f.args.include_summary)
    ELSE ChunkedTail(acc, f.sheets, f.args.prompt_template, f.args.include_summary)

\* another call is inside its sheet loop
Busy(c) == \E d \in Callers \ {c} : calls.frames[d].pc = "loop"

InitConcurrent ==
    /\ workbook \in ConcurrentWorkbooks
    /\ pc = "idle"
    /\ op = "none"
    /\ args = NoArgs
    /\ result = NoResult
    /\ all_sheets = <<>>
    /\ warnings = <<>>
    /\ handles = 0
    /\ calls = IdleCalls

\* caller c enters one of the two operations: the sheets are loaded and the
\* list of the call is created
Begin(c) ==
    /\ calls.frames[c].pc = "idle"
    /\ \E a \in ConcurrentArgs :
        calls' = [calls EXCEPT !.frames[c] = Enter(a, Load(workbook, a.sheet_names)),
                               !.lists[ListOf(c)] = <<>>]
    /\ UNCHANGED <<workbook, pc, op, args, result, all_sheets, warnings, handles>>

\* the call of caller c runs one iteration of its sheet loop
Iterate(c) ==
    /\ calls.frames[c].pc = "loop"
    /\ calls.frames[c].i <= Len(calls.frames[c].sheets)
    /\ calls' =
        [calls EXCEPT
            !.frames[c] = Advance(@, calls.lists[ListOf(c)],
                                  Iteration(@, calls.lists[ListOf(c)]), Busy(c)),
            !.lists[ListOf(c)] =
                LET step == Iteration(calls.frames[c], @)
                IN IF step.res.status = "raised" THEN @ ELSE step.res.value]
    /\ UNCHANGED <<workbook, pc, op, args, result, all_sheets, warnings, handles>>

\* the loop of the call of caller c is over: the call returns its result
Finish(c) ==
    /\ calls.frames[c].pc = "loop"
    /\ calls.frames[c].i > Len(calls.frames[c].sheets)
    /\ calls' =
        [calls EXCEPT
            !.frames[c] = ReturnedFrame(@,
                Reraise(ErrorPrefix(@.args), AfterLoop(@, calls.lists[ListOf(c)])))]
    /\ UNCHANGED <<workbook, pc, op, args, result, all_sheets, warnings, handles>>

\* caller c is done with the result of its call
Forget(c) ==
    /\ calls.frames[c].pc = "returned"
    /\ calls' = [calls EXCEPT !.frames[c] = IdleFrame]
    /\ UNCHANGED <<workbook, pc, op, args, result, all_sheets, warnings, handles>>

NextConcurrent ==
    \/ \E c \in Callers : Begin(c)
    \/ \E c \in Callers : Iterate(c)
    \/ \E c \in Callers : Finish(c)
    \/ \E c \in Callers : Forget(c)

SpecConcurrent == InitConcurrent /\ [][NextConcurrent]_vars

(* ------------------------------ properties ----------------------------- *)

IsPipeline == op \in {"formatted", "chunked"}

\* the loaded sheets that have at least one row, in SheetSet order
NonEmptySheets(sheets) ==
    SelectSeq(sheets, LAMBDA e : Len(e.df.rows) > 0)

\* some loaded sheet has at least one row
HasRows(sheets) == Len(NonEmptySheets(sheets)) > 0

\* the texts the chunked operation is specified to return for one sheet
SheetChunkTexts(e, output_format, chunk_size, prompt_template) ==
    LET n     == DfLen(e.df)
        total == CeilDiv(n, chunk_size)
    IN [k \in 1..total |->
          format_prompt(
              "\n=== SHEET: " \o e.name \o " - CHUNK " \o ToString(k) \o "/"
              \o ToString(total) \o " ===\n"
              \o Render(Iloc(fillna(e.df), (k - 1) * chunk_size, k * chunk_size),
                        output_format).value,
              prompt_template)]

\* C1: excel_to_chunked_text on a loaded workbook with a non-empty sheet, a
\* supported format and chunk_size > 0 returns, without raising, one
\* templated text per chunk in sheet-then-chunk order, ceil(rows/chunk_size)
\* per non-empty sheet, preceded by the templated summary as element 0 when
\* include_summary is set.
C1_ChunkedReturnsOneTextPerChunk ==
    ( /\ op = "chunked"
      /\ HasRows(all_sheets)
      /\ Supported(args.output_format)
      /\ args.chunk_size > 0 )
    => /\ result.status = "ok"
       /\ LET data == Flatten([k \in 1..Len(NonEmptySheets(all_sheets)) |->
                          SheetChunkTexts(NonEmptySheets(all_sheets)[k],
                              args.output_format, args.chunk_size,
                              args.prompt_template)])
              summ == format_prompt(
                          format_summary(get_data_summary(
                              NonEmptySheets(all_sheets)[1].df)),
                          args.prompt_template)
          IN result.value = (IF args.include_summary THEN <<summ>> ELSE <<>>)
                            \o data

\* the rows of the chunks of a chunk list, concatenated in list order
ChunkRows(chunks) == Flatten([k \in 1..Len(chunks) |-> chunks[k].rows])

\* C2: for chunk_size > 0 the chunks returned by chunk_df, concatenated in
\* list order, are exactly the table's rows (nothing duplicated, omitted or
\* reordered), and every chunk keeps the table's columns in order.
C2_ChunksPartitionRows ==
    (op = "chunk_df" /\ args.chunk_size > 0)
    => /\ result.status = "ok"
       /\ ChunkRows(result.value) = args.df.rows
       /\ \A k \in 1..Len(result.value) :
             /\ result.value[k].columns = args.df.columns
             /\ result.value[k].dtypes = args.df.dtypes

\* a table with a repeated row was split into three chunks
C2_Witness ==
    /\ op = "chunk_df"
    /\ args.chunk_size = 1
    /\ result.status = "ok"
    /\ Len(result.value) = 3
    /\ args.df.rows[1] = args.df.rows[3]
    /\ args.df.rows[1] # args.df.rows[2]

\* C3 as claimed: ceil(n/c) chunks, one chunk when n <= c (n = 0 included),
\* every chunk but the last has c rows and the last has between 1 and c rows.
C3_LastChunkNeverEmpty ==
    (op = "chunk_df" /\ args.chunk_size > 0)
    => /\ result.status = "ok"
       /\ LET n  == DfLen(args.df)
              c  == args.chunk_size
              cs == result.value
          IN /\ Len(cs) = (IF n <= c THEN 1 ELSE CeilDiv(n, c))
             /\ \A k \in 1..(Len(cs) - 1) : DfLen(cs[k]) = c
             /\ DfLen(cs[Len(cs)]) >= 1
             /\ DfLen(cs[Len(cs)]) <= c

\* C3 (amended): for n >= 1 rows chunk_df returns ceil(n/c) chunks, all but
\* the last of exactly c rows and the last of 1..c rows; for n = 0 it
\* returns exactly one chunk, which has zero rows.
C3_ChunkCountAndSizes ==
    (op = "chunk_df" /\ args.chunk_size > 0)
    => /\ result.status = "ok"
       /\ LET n  == DfLen(args.df)
              c  == args.chunk_size
              cs == result.value
          IN IF n = 0
             THEN Len(cs) = 1 /\ DfLen(cs[1]) = 0
             ELSE /\ Len(cs) = CeilDiv(n, c)
                  /\ n <= c => Len(cs) = 1
                  /\ \A k \in 1..(Len(cs) - 1) : DfLen(cs[k]) = c
                  /\ DfLen(cs[Len(cs)]) >= 1
                  /\ DfLen(cs[Len(cs)]) <= c

\* four rows were split by three: a full chunk and a remainder of one
C3_Witness ==
    /\ op = "chunk_df"
    /\ args.chunk_size = 3
    /\ DfLen(args.df) = 4
    /\ result.status = "ok"
    /\ Len(result.value) = 2
    /\ DfLen(result.value[2]) = 1

\* C4: a chunk_size <= 0 is rejected: chunk_df raises instead of returning
\* a chunk list, and so does excel_to_chunked_text.
C4_NonPositiveChunkSizeRejected ==
    (op \in {"chunk_df", "chunked"} /\ args.chunk_size <= 0)
    => result.status = "raised"

\* C5: an unsupported format makes both pipeline operations fail, whatever
\* the workbook holds, all-empty sheets included.
C5_UnsupportedFormatAlwaysFails ==
    (IsPipeline /\ ~Supported(args.output_format))
    => result.status = "raised"

\* the message prefix each operation puts before the original message
Prefix == IF op = "chunked" THEN "Error converting Excel file to chunks: "
          ELSE "Error converting Excel file: "

NoSheetsMsg == "No sheets could be read from the Excel file"

\* C6: a fatal condition reaches the caller with a kind of its own; an
\* unsupported format met while formatting a loaded, non-empty sheet
\* surfaces as a ValueError.
C6_UnsupportedFormatIsValueError ==
    ( /\ op = "formatted"
      /\ ~Supported(args.output_format)
      /\ HasRows(all_sheets) )
    => /\ result.status = "raised"
       /\ result.type = "ValueError"

\* the requested names the workbook can deliver, first occurrences only,
\* in requested order
RECURSIVE Loadable(_, _, _)
Loadable(wb, names, seen) ==
    IF Len(names) = 0 THEN <<>>
    ELSE IF wb.readable /\ InSeq(Head(names), Declared(wb))
            /\ Head(names) \notin seen
         THEN <<Head(names)>> \o Loadable(wb, Tail(names), seen \cup {Head(names)})
         ELSE Loadable(wb, Tail(names), seen)

\* how many requested names fail to load
FailedCount(wb, names) ==
    Cardinality({k \in 1..Len(names) :
                    ~(wb.readable /\ InSeq(names[k], Declared(wb)))})

\* C7: with a list selector a name that fails to load is warned about and
\* omitted, the other names are still loaded in requested order, and the
\* call succeeds provided at least one name loaded (with a supported format
\* and, when chunking, a positive chunk_size).
C7_ListSelectorSkipsFailedNames ==
    ( /\ IsPipeline
      /\ args.sheet_names.kind = "list"
      /\ Len(Loadable(workbook, args.sheet_names.names, {})) > 0
      /\ Supported(args.output_format)
      /\ op = "chunked" => args.chunk_size > 0 )
    => /\ [k \in 1..Len(all_sheets) |-> all_sheets[k].name]
            = Loadable(workbook, args.sheet_names.names, {})
       /\ Len(warnings) = FailedCount(workbook, args.sheet_names.names)
       /\ result.status = "ok"

\* C8: whenever no sheet is loaded (for instance a list selector none of
\* whose names loads, or an empty list) both operations raise the
\* no-sheets error and return neither text nor sequence.
C8_EmptySheetSetFails ==
    /\ (IsPipeline /\ Len(all_sheets) = 0) => result.status = "raised"
    /\ ( /\ IsPipeline
         /\ args.sheet_names.kind = "list"
         /\ Len(Loadable(workbook, args.sheet_names.names, {})) = 0 )
       => /\ result.status = "raised"
          /\ result.msg = Prefix \o NoSheetsMsg

\* two names were requested from a readable workbook, neither exists
C8_Witness ==
    /\ IsPipeline
    /\ workbook.readable
    /\ args.sheet_names.kind = "list"
    /\ Len(args.sheet_names.names) = 2
    /\ Len(warnings) = 2
    /\ result.status = "raised"
    /\ result.msg = Prefix \o NoSheetsMsg

\* C9: a source that cannot be opened makes both operations fail, for every
\* selector shape, with an error other than the no-readable-sheets one.
C9_UnreadableSourceIsItsOwnError ==
    ( /\ IsPipeline
      /\ ~workbook.readable
      /\ args.sheet_names.kind = "list" => Len(args.sheet_names.names) > 0 )
    => /\ result.status = "raised"
       /\ result.msg # Prefix \o NoSheetsMsg

\* the workbook without its zero-row sheets
WithoutEmpty(wb) ==
    [wb EXCEPT !.sheets = SelectSeq(wb.sheets, LAMBDA e : e.nrows > 0)]

\* the result of the last pipeline call, had it been made on workbook wb
ResultOn(wb) ==
    IF op = "formatted"
    THEN excel_to_formatted_text(wb, args.sheet_names, args.output_format,
            args.chunk_size, args.prompt_template, args.include_summary,
            args.evaluate_formulas).result
    ELSE excel_to_chunked_text(wb, args.sheet_names, args.output_format,
            args.chunk_size, args.prompt_template, args.include_summary).result

Contains(text, sub) ==
    \E i \in 1..(Len(text) - Len(sub) + 1) : SubSeq(text, i, i + Len(sub) - 1) = sub

\* the positions at which sub starts in text
Occurrences(text, sub) ==
    {i \in 1..(Len(text) - Len(sub) + 1) : SubSeq(text, i, i + Len(sub) - 1) = sub}

\* the sheet-delimiter marker of a sheet name
Marker(name) == "=== SHEET: " \o name \o " ==="

\* C11: converting a selection that holds an empty sheet is handled
\* gracefully: excel_to_formatted_text returns without error and its text
\* contains the marker "=== SHEET: <name> ===" of every loaded sheet, the
\* zero-row ones included.
C11_EmptySheetKeepsItsMarker ==
    ( /\ op = "formatted"
      /\ Len(all_sheets) > 0
      /\ Supported(args.output_format)
      /\ args.prompt_template = DefaultTemplate )
    => /\ result.status = "ok"
       /\ \A k \in 1..Len(all_sheets) :
             Contains(result.value, Marker(all_sheets[k].name))

\* the sheet names a call is to load: the declared ones without a selector,
\* else the requested ones the workbook can deliver, in requested order
Requested ==
    IF args.sheet_names.kind = "none"
    THEN (IF workbook.readable THEN Declared(workbook) ELSE <<>>)
    ELSE Loadable(workbook, args.sheet_names.names, {})

\* the requested names whose sheet has at least one row
RequestedNonEmpty ==
    SelectSeq(Requested,
        LAMBDA n : workbook.sheets[IndexOf(n, Declared(workbook))].nrows > 0)

\* a sheet's block: its marker on a line of its own, then the sheet rendered
\* on its own in the chosen format
SheetBlock(name, output_format) ==
    "\n" \o Marker(name) \o "\n"
    \o Render(read_excel(workbook, name).value, output_format).value

\* C12: the text of excel_to_formatted_text holds exactly one marker
\* "=== SHEET: <name> ===" per loaded non-empty sheet, in requested order
\* (declared order without a selector); each marker is followed by exactly
\* the rendering of that sheet alone, and consecutive blocks are separated
\* by a blank line.
C12_OneBlockPerNonEmptySheet ==
    ( /\ op = "formatted"
      /\ Len(Requested) > 0
      /\ Supported(args.output_format) )
    => /\ result.status = "ok"
       /\ args.prompt_template = DefaultTemplate
          => Cardinality(Occurrences(result.value, "=== SHEET: "))
                = Len(RequestedNonEmpty)
       /\ ~args.include_summary
          => result.value =
                format_prompt(
                    Join("\n\n", [k \in 1..Len(RequestedNonEmpty) |->
                        SheetBlock(RequestedNonEmpty[k], args.output_format)]),
                    args.prompt_template)

\* the second sheet was requested before the first, both have rows, and the
\* text came back with two markers
C12_Witness ==
    /\ op = "formatted"
    /\ args.sheet_names = SelList(<<SheetNames[2], SheetNames[1]>>)
    /\ Len(RequestedNonEmpty) = 2
    /\ args.prompt_template = DefaultTemplate
    /\ ~args.include_summary
    /\ result.status = "ok"
    /\ Cardinality(Occurrences(result.value, Marker(SheetNames[2]))) = 1
    /\ Cardinality(Occurrences(result.value, Marker(SheetNames[1]))) = 1

\* the chunk header of chunk i of n of a sheet
ChunkMarker(name, i, n) ==
    "=== SHEET: " \o name \o " - CHUNK " \o ToString(i) \o "/" \o ToString(n)
    \o " ==="

\* C13: for a loaded workbook with a non-empty sheet, a supported format, a
\* positive chunk_size and the default template, excel_to_chunked_text
\* returns data elements that carry, sheet after sheet, the headers
\* "=== SHEET: <name> - CHUNK <i>/<n> ===" for i = 1, 2, ..., n in that
\* order without gap or repeat, n being the number of chunks of that sheet
\* alone.
C13_ChunkHeadersNumberedPerSheet ==
    ( /\ op = "chunked"
      /\ HasRows(all_sheets)
      /\ Supported(args.output_format)
      /\ args.chunk_size > 0
      /\ args.prompt_template = DefaultTemplate )
    => /\ result.status = "ok"
       /\ LET headers ==
                Flatten([k \in 1..Len(NonEmptySheets(all_sheets)) |->
                    LET e == NonEmptySheets(all_sheets)[k]
                        n == CeilDiv(DfLen(e.df), args.chunk_size)
                    IN [i \in 1..n |-> ChunkMarker(e.name, i, n)]])
              data == IF args.include_summary THEN Tail(result.value)
                      ELSE result.value
          IN /\ Len(data) = Len(headers)
             /\ \A j \in 1..Len(headers) : Contains(data[j], headers[j])

\* the table the summary is specified to describe: the first requested
\* sheet that has at least one row, as read from the source
SummarisedText ==
    format_summary(get_data_summary(
        read_excel(workbook, RequestedNonEmpty[1]).value))

\* C14 for excel_to_formatted_text: the summary of the first non-empty sheet
\* comes first, a blank line separates it from the sheet blocks, and the
\* whole is what the template receives
C14_FormattedSummaryFirst ==
    ( /\ op = "formatted"
      /\ args.include_summary
      /\ Len(RequestedNonEmpty) > 0
      /\ Supported(args.output_format) )
    => /\ result.status = "ok"
       /\ result.value =
            format_prompt(
                SummarisedText \o "\n\n" \o
                Join("\n\n", [k \in 1..Len(RequestedNonEmpty) |->
                    SheetBlock(RequestedNonEmpty[k], args.output_format)]),
                args.prompt_template)

\* C14 for excel_to_chunked_text: the summary element describes the whole
\* first non-empty sheet, not a chunk of it and not several sheets
C14_ChunkedSummaryOfWholeSheet ==
    ( /\ op = "chunked"
      /\ args.include_summary
      /\ Len(RequestedNonEmpty) > 0
      /\ Supported(args.output_format)
      /\ args.chunk_size > 0 )
    => /\ result.status = "ok"
       /\ Len(result.value) > 0
       /\ result.value[1] = format_prompt(SummarisedText, args.prompt_template)

\* C14: with include_summary set, the summary of both pipeline operations
\* describes exactly one table, the first one in SheetSet order that has a
\* row (leading zero-row sheets skipped), never several sheets and never a
\* single chunk; in excel_to_formatted_text it precedes all sheet blocks,
\* separated by a blank line, inside the text the template receives.
C14_SummaryDescribesFirstNonEmptySheet ==
    C14_FormattedSummaryFirst /\ C14_ChunkedSummaryOfWholeSheet

\* the j-th smallest element of a set of integers
Nth(S, j) == CHOOSE p \in S : Cardinality({q \in S : q < p}) = j - 1

\* the template text between its j-th and (j+1)-th placeholder; j = 0 is
\* the text before the first and j = k the text after the last
Piece(t, occ, j) ==
    SubSeq(t,
           IF j = 0 THEN 1 ELSE Nth(occ, j) + Len(Placeholder),
           IF j = Cardinality(occ) THEN Len(t) ELSE Nth(occ, j + 1) - 1)

\* C15: format_prompt(data, template) is the template with every occurrence
\* of "[formatted_data]" replaced by data and the text around the
\* occurrences unchanged: without an occurrence it is the template itself,
\* with k occurrences the data appears k times, with empty data only the
\* text around the placeholders is left.
C15_EveryPlaceholderReplaced ==
    (op = "format_prompt")
    => LET t   == args.prompt_template
           d   == args.data_text
           occ == Occurrences(t, Placeholder)
           k   == Cardinality(occ)
       IN /\ result.status = "ok"
          /\ k = 0 => result.value = t
          /\ Len(result.value) = Len(t) - k * Len(Placeholder) + k * Len(d)
          /\ result.value =
                Piece(t, occ, 0) \o
                Join("", [j \in 1..k |-> d \o Piece(t, occ, j)])
          /\ d = "" => result.value = Join("", [j \in 1..(k + 1) |-> Piece(t, occ, j - 1)])
          /\ (d # "" /\ ~Contains(t, d))
             => Cardinality(Occurrences(result.value, d)) = k

\* a template with two placeholders was filled: the data appears twice
C15_Witness ==
    /\ op = "format_prompt"
    /\ args.prompt_template = "[formatted_data] and [formatted_data]"
    /\ args.data_text = "data"
    /\ result = Ok("data and data")

\* how many cells of column c hold nothing in the source sheet
AbsentCount(sheet, c) ==
    LET src == SourceRows(sheet.name, sheet.nrows, sheet.absent)
    IN Cardinality({i \in 1..Len(src) : src[i][c] = Blank})

\* the "Missing Values:" section a sheet's absent cells call for
MissingSection(sheet) ==
    Join("\n", <<"Missing Values:">> \o
        Flatten([c \in 1..Len(Columns) |->
            IF AbsentCount(sheet, c) > 0
            THEN << "  " \o Columns[c] \o ": " \o ToString(AbsentCount(sheet, c)) >>
            ELSE << >>]))

\* C16: the summary the pipeline produces lists, under "Missing Values:",
\* every column of the summarised sheet with the number k > 0 of its cells
\* that are absent in the source sheet (and no other column).
C16_MissingCountsSourceAbsence ==
    ( /\ op = "formatted"
      /\ args.include_summary
      /\ Len(RequestedNonEmpty) > 0
      /\ Supported(args.output_format)
      /\ args.prompt_template = DefaultTemplate )
    => /\ result.status = "ok"
       /\ LET sheet == workbook.sheets[IndexOf(RequestedNonEmpty[1],
                                               Declared(workbook))]
          IN Contains(result.value,
                      MissingSection(sheet) \o "\n\nNumeric Column Statistics:")

\* the lines of a text: what lies between its line breaks
Lines(text) ==
    LET nl == Occurrences(text, "\n")
        n  == Cardinality(nl) + 1
    IN [j \in 1..n |->
          SubSeq(text,
                 IF j = 1 THEN 1 ELSE Nth(nl, j - 1) + 1,
                 IF j = n THEN Len(text) ELSE Nth(nl, j) - 1)]

StartsWith(text, pre) == SubSeq(text, 1, Len(pre)) = pre

EndsWith(text, suf) == SubSeq(text, Len(text) - Len(suf) + 1, Len(text)) = suf

\* the statistics of a described column that have a value
Defined(stats) == SelectSeq(stats, LAMBDA st : st[2] # Undefined)

\* C17: format_summary emits its sections in one fixed order: the line
\* "=== DATA SUMMARY ===" first, the row count, the column count, the
\* memory usage, a blank line, "Column Types:" with one entry per column, a
\* blank line, "Missing Values:" with an entry for exactly the columns whose
\* missing count is not zero, and then "Numeric Column Statistics:" if and
\* only if the table has a numeric column, with one line per statistic that
\* has a value and none for an undefined one.
C17_SummarySectionsInFixedOrder ==
    (op = "format_summary")
    => LET s    == args.summary
           L    == Lines(result.value)
           nc   == Len(s.column_types)
           miss == SelectSeq(s.missing_values, LAMBDA e : e[2] # 0)
           m    == Len(miss)
           num  == \E c \in 1..nc : s.column_types[c][2] \in {"int64", "float64"}
           base == 8 + nc + m
       IN /\ result.status = "ok"
          /\ Len(L) >= base
          /\ L[1] = "=== DATA SUMMARY ==="
          /\ L[2] = "Rows: " \o ToString(s.rows)
          /\ L[3] = "Columns: " \o ToString(s.columns)
          /\ StartsWith(L[4], "Memory Usage: ") /\ EndsWith(L[4], " KB")
          /\ L[5] = ""
          /\ L[6] = "Column Types:"
          /\ \A c \in 1..nc :
                L[6 + c] = "  " \o s.column_types[c][1] \o ": " \o s.column_types[c][2]
          /\ L[7 + nc] = ""
          /\ L[8 + nc] = "Missing Values:"
          /\ \A j \in 1..m :
                L[8 + nc + j] = "  " \o miss[j][1] \o ": " \o ToString(miss[j][2])
          /\ num <=> Contains(result.value, "Numeric Column Statistics:")
          /\ ~num => Len(L) = base
          /\ num =>
               /\ Len(L) = base + 2 + Sum([k \in 1..Len(s.numeric_summary) |->
                                1 + Len(Defined(s.numeric_summary[k][2]))])
               /\ L[base + 1] = ""
               /\ L[base + 2] = "Numeric Column Statistics:"
               /\ L[base + 3] = "  " \o s.numeric_summary[1][1] \o ":"
               /\ \A j \in (base + 3)..Len(L) :
                     \/ \E k \in 1..Len(s.numeric_summary) :
                            L[j] = "  " \o s.numeric_summary[k][1] \o ":"
                     \/ \E k \in 1..Len(s.numeric_summary) :
                        \E i \in 1..Len(Defined(s.numeric_summary[k][2])) :
                            L[j] = "    " \o Defined(s.numeric_summary[k][2])[i][1]
                                   \o ": " \o Fixed4(Defined(s.numeric_summary[k][2])[i][2])

\* a two-row table whose float column holds one NaN was summarised: the
\* column is listed as missing once and its undefined deviation is left out
C17_Witness ==
    /\ op = "format_summary"
    /\ args.summary.rows = 2
    /\ result.status = "ok"
    /\ Contains(result.value, "Missing Values:\n  Score: 1\n\nNumeric Column Statistics:\n  Score:\n    count: 1.0000\n    mean: 2.0000\n    min: 2.0000")

\* the names of the integer and floating-point columns of a table, in
\* column order
NumericNames(df) ==
    Flatten([c \in 1..Len(df.columns) |->
        IF df.dtypes[c] \in {"int64", "float64"} THEN <<df.columns[c]>> ELSE <<>>])

\* C18: get_data_summary reports the table's row and column counts, a type
\* entry for every column, and numeric statistics for exactly the integer
\* and floating-point columns: each of them is in the numeric section, no
\* other column is, and the section is absent when there is none.
C18_SummaryCountsTypesAndNumericColumns ==
    (op = "get_data_summary")
    => LET df == args.df
           s  == result.value
       IN /\ result.status = "ok"
          /\ s.rows = Len(df.rows)
          /\ s.columns = Len(df.columns)
          /\ Len(s.column_types) = Len(df.columns)
          /\ \A c \in 1..Len(df.columns) :
                s.column_types[c] = <<df.columns[c], df.dtypes[c]>>
          /\ [k \in 1..Len(s.numeric_summary) |-> s.numeric_summary[k][1]]
                = NumericNames(df)
          /\ s.has_numeric <=> Len(NumericNames(df)) > 0
          /\ \A k \in 1..Len(s.numeric_summary) :
                [j \in 1..Len(s.numeric_summary[k][2]) |-> s.numeric_summary[k][2][j][1]]
                    = <<"count", "mean", "std", "min", "25%", "50%", "75%", "max">>

\* a two-row table with a float column and a text column was summarised:
\* statistics for the float column only
C18_Witness ==
    /\ op = "get_data_summary"
    /\ args.df.columns = <<"Score", "Name">>
    /\ Len(args.df.rows) = 2
    /\ result.status = "ok"
    /\ result.value.rows = 2
    /\ result.value.columns = 2
    /\ Len(result.value.numeric_summary) = 1
    /\ result.value.numeric_summary[1][1] = "Score"

\* the operations that open the source
OpensSource ==
    op \in {"formatted", "chunked", "validate_excel_file", "detect_sheets"}

\* C20: the source handle is released on every exit path: once an operation
\* that opens the source has returned or raised (a per-sheet load failure
\* and a fatal error included), no handle it opened is still open.
C20_NoHandleLeftOpen ==
    (pc = "returned" /\ OpensSource) => handles = 0

\* C21: validate_excel_file is total: for every source it returns a boolean
\* and never raises, True when the source can be read as a workbook and
\* False when reading it fails.
C21_ValidateIsTotal ==
    (op = "validate_excel_file")
    => /\ result.status = "ok"
       /\ result.value \in BOOLEAN
       /\ result.value <=> workbook.readable

\* a source that is not a workbook was validated: False came back
C21_Witness ==
    /\ op = "validate_excel_file"
    /\ ~workbook.readable
    /\ result = Ok(FALSE)

\* a list selector names some sheet of the workbook more than once
NamesSheetTwice ==
    /\ args.sheet_names.kind = "list"
    /\ workbook.readable
    /\ \E i, j \in 1..Len(args.sheet_names.names) :
          /\ i < j
          /\ args.sheet_names.names[i] = args.sheet_names.names[j]
          /\ InSeq(args.sheet_names.names[i], Declared(workbook))

\* C22: when a list selector names the same sheet more than once, the
\* SheetSet holds one entry for that name, holding the sheet as loaded, and
\* the output of either operation (with a supported format and, when
\* chunking, a positive chunk_size) contains the block of each non-empty
\* sheet, or its chunk series, exactly once.
C22_RepeatedNameLoadedOnce ==
    ( /\ IsPipeline
      /\ NamesSheetTwice
      /\ Supported(args.output_format)
      /\ args.prompt_template = DefaultTemplate
      /\ op = "chunked" => args.chunk_size > 0 )
    => /\ \A i, j \in 1..Len(all_sheets) :
             all_sheets[i].name = all_sheets[j].name => i = j
       /\ \A k \in 1..Len(all_sheets) :
             all_sheets[k].df = read_excel(workbook, all_sheets[k].name).value
       /\ result.status = "ok"
       /\ op = "formatted"
          => \A k \in 1..Len(NonEmptySheets(all_sheets)) :
                Cardinality(Occurrences(result.value,
                    Marker(NonEmptySheets(all_sheets)[k].name))) = 1
       /\ op = "chunked"
          => \A k \in 1..Len(NonEmptySheets(all_sheets)) :
                LET e == NonEmptySheets(all_sheets)[k]
                    n == CeilDiv(DfLen(e.df), args.chunk_size)
                IN \A i \in 1..n :
                      Cardinality({j \in 1..Len(result.value) :
                          Contains(result.value[j], ChunkMarker(e.name, i, n))}) = 1

\* C23: the SheetSet is read-only after loading: when either pipeline
\* operation is over, every table of the SheetSet is the table that was
\* loaded (normalisation went to a copy), and the summary of
\* excel_to_formatted_text is the summary of the first non-empty table as
\* loaded.
C23_SheetSetKeepsLoadedTables ==
    (IsPipeline /\ pc = "returned")
    => /\ all_sheets = Load(workbook, args.sheet_names).sheets
       /\ \A k \in 1..Len(all_sheets) :
             /\ all_sheets[k].df = read_excel(workbook, all_sheets[k].name).value
             /\ all_sheets[k].df.obj = "original"
       /\ ( /\ op = "formatted"
            /\ args.include_summary
            /\ HasRows(all_sheets)
            /\ Supported(args.output_format)
            /\ args.prompt_template = DefaultTemplate )
          => StartsWith(result.value,
                "Analyze this data: " \o SummarisedText \o "\n\n")

\* two non-empty sheets were formatted with a summary and the SheetSet
\* still holds both as loaded
C23_Witness ==
    /\ op = "formatted"
    /\ pc = "returned"
    /\ result.status = "ok"
    /\ args.include_summary
    /\ Len(NonEmptySheets(all_sheets)) = 2
    /\ \A k \in 1..Len(all_sheets) : all_sheets[k].df.obj = "original"

\* C26: excel_to_chunked_text returns the empty list, without error and
\* without a summary element, when every loaded sheet has zero rows, even
\* with include_summary set; a summary element is in a result only next to
\* at least one data chunk, and then at index 0.
C26_AllEmptyGivesEmptyList ==
    /\ ( /\ op = "chunked"
         /\ Len(all_sheets) > 0
         /\ ~HasRows(all_sheets) )
       => result = Ok(<<>>)
    /\ (op = "chunked" /\ result.status = "ok")
       => \A j \in 1..Len(result.value) :
             Contains(result.value[j], "=== DATA SUMMARY ===")
                => (j = 1 /\ Len(result.value) > 1)

\* two zero-row sheets were chunked with include_summary set: the empty
\* list came back
C26_Witness ==
    /\ op = "chunked"
    /\ args.include_summary
    /\ args.prompt_template = DefaultTemplate
    /\ Len(all_sheets) = 2
    /\ ~HasRows(all_sheets)
    /\ result = Ok(<<>>)

\* the result of the last excel_to_formatted_text call, had it been made
\* with another chunk_size and evaluate_formulas
ResultWith(chunk_size, evaluate_formulas) ==
    excel_to_formatted_text(workbook, args.sheet_names, args.output_format,
        chunk_size, args.prompt_template, args.include_summary,
        evaluate_formulas).result

PipelineCalls == {"excel_to_formatted_text", "excel_to_chunked_text"}

\* C25: one CLI run invokes at most one of the two pipeline operations, and
\* none when the input is missing or not a workbook or when --list-sheets
\* or --validate is given; the output file is written only after that
\* operation returned successfully; and a run with a missing input, an
\* invalid workbook, a failed conversion or a failed write exits with
\* status 1.
C25_CliRunsOnePipelineCall ==
    (op = "cli")
    => LET ev   == result.events
           pipe == {k \in 1..Len(ev) : ev[k].call \in PipelineCalls}
       IN /\ Cardinality(pipe) <= 1
          /\ (~args.exists \/ ~workbook.readable \/ args.list_sheets \/ args.validate)
             => pipe = {}
          /\ \A w \in 1..Len(ev) :
                ev[w].call = "write"
                => \E k \in pipe : k < w /\ ev[k].status = "ok"
          /\ result.output.written
             => \E w \in 1..Len(ev) : ev[w] = Event("write", "ok")
          /\ ( \/ ~args.exists
               \/ ~workbook.readable
               \/ \E k \in 1..Len(ev) : ev[k].status = "raised" )
             => result.code = 1

\* a run converted a workbook and saved the text: validation, one pipeline
\* call, the write, exit status 0
C25_Witness ==
    /\ op = "cli"
    /\ Len(result.events) = 3
    /\ result.events[2] = Event("excel_to_formatted_text", "ok")
    /\ result.events[3] = Event("write", "ok")
    /\ result.output.written
    /\ Contains(result.output.text, Marker(SheetNames[1]))
    /\ result.code = 0

\* the result of a call with arguments a that runs alone on the source
Alone(a) ==
    IF a.op = "formatted"
    THEN excel_to_formatted_text(workbook, a.sheet_names, a.output_format,
            a.chunk_size, a.prompt_template, a.include_summary, FALSE).result
    ELSE excel_to_chunked_text(workbook, a.sheet_names, a.output_format,
            a.chunk_size, a.prompt_template, a.include_summary).result

\* C24: calls of the two pipeline operations share no mutable state: however
\* the steps of two calls interleave, a call that has returned or raised has
\* the result the same call gives when it runs alone on the same arguments
\* and the same source.
C24_InterleavedCallsAsAlone ==
    \A c \in Callers :
        calls.frames[c].pc = "returned"
        => calls.frames[c].result = Alone(calls.frames[c].args)

\* two calls with different results each ran loop iterations while the other
\* was inside its loop, and both returned text of two sheets
C24_Witness ==
    /\ \A c \in Callers :
        /\ calls.frames[c].pc = "returned"
        /\ calls.frames[c].overlapped
        /\ calls.frames[c].args.op = "formatted"
        /\ calls.frames[c].result.status = "ok"
        /\ Len(NonEmptySheets(calls.frames[c].sheets)) = 2
    /\ calls.frames["A"].result # calls.frames["B"].result

====
